---------------------------- MODULE Spec2Model ----------------------------
(***************************************************************************)
(* ChainMind AI demand-forecasting service (src/ai-service).               *)
(*                                                                         *)
(* The model covers the predictor (services/predictor.py: the module-level *)
(* artifact cache, _load_model, reload_model, predict and its              *)
(* post-processing), the trainer (services/trainer.py: train_model's       *)
(* data-source choice, _build_sliding_windows, _build_Xy's feature names   *)
(* and the persistence of the artifact), the keys of extract_features      *)
(* (utils/feature_engineering.py) and the /retrain route                   *)
(* (routes/predict.py: trigger_retrain).                                   *)
(*                                                                         *)
(* Numbers.  Python floats are modelled by exact integers at a fixed       *)
(* scale: demand in hundredths (the code rounds it to 2 decimals),         *)
(* confidence in thousandths (the code rounds it to 3 decimals), the raw   *)
(* output of the regressor in thousandths.  Stock and lead time are whole  *)
(* numbers.  The input sets below hold no value on which a decimal         *)
(* rounding tie occurs, and none on which the float result of the code's   *)
(* floor, ceil or round differs from the exact one (stock 7 with demand    *)
(* 0.07, or demand 0.8 with lead time 3, would).                           *)
(*                                                                         *)
(* Threads.  The service is a Flask application started with app.run       *)
(* (app.py:65), which serves each request on its own thread; the steps of  *)
(* _load_model and reload_model that read or write the global              *)
(* _model_cache, and the steps of joblib.dump on the artifact file, are    *)
(* therefore separate actions that interleave.                             *)
(***************************************************************************)
EXTENDS Integers, Sequences, FiniteSets, TLC

VARIABLES
    storage,    \* the file at MODEL_PATH
    cache,      \* predictor._model_cache
    pc,         \* each thread's position
    req,        \* each thread's request: predict's payload
    tmp,        \* _load_model: the value joblib.load returned, not yet stored
    art,        \* the value _load_model returned to its caller
    resp,       \* each thread's outcome
    train,      \* trigger_retrain / train_model: the trainer's locals
    trained     \* number of retrains started so far

vars == <<storage, cache, pc, req, tmp, art, resp, train, trained>>

---------------------------------------------------------------------------
(* Bounds of the model *)

\* longest sales history of a query
MaxLen == 8
\* retrains per run
MaxTrains == 2
\* most rows of an export given to _build_sliding_windows
MaxRows == 4
\* longest series given to extract_features on its own
MaxSeries == 31

\* daily sales values of a query
SaleValues == {0, 3}
\* currentStock values of a query (the key may also be missing)
StockValues == {-1, 0, 5, 999}
\* leadTimeDays values of a query (the key may also be missing)
LeadValues == {0, 1, 3}
\* raw outputs of model.predict, in thousandths
ModelOutputs == {-500, 4, 333, 1000, 2504}
\* raw outputs of model.predict in the concurrent specification
SmallOutputs == {4, 2504}

---------------------------------------------------------------------------
(* Program constants *)

\* config.py: MIN_HISTORY_LEN
MIN_HISTORY_LEN == 14
\* config.py: ROLLING_WINDOWS[0], the shortest rolling window
ROLLING_WINDOW_7 == 7
\* config.py: SAFETY_FACTOR = 1.25, in hundredths
SAFETY_FACTOR == 125
\* predictor.py: days_to_stockout = 999, "effectively never"
NEVER == 999
\* predictor.py: payload.get("leadTimeDays", 7)
DEFAULT_LEAD_TIME == 7
\* predictor.py: payload.get("currentStock", 0)
DEFAULT_STOCK == 0
\* predictor.py: the heuristic's window, sales_history[-7:]
HEURISTIC_WINDOW == 7
\* predictor.py: confidence = 0.5 on the heuristic path, in thousandths
HEURISTIC_CONFIDENCE == 500
\* config.py: SYNTHETIC_SAMPLES
SYNTHETIC_SAMPLES == 2000
\* config.py: SYNTHETIC_HISTORY_LEN
SYNTHETIC_HISTORY_LEN == 60
\* trainer.py: len(historical) >= 500
MIN_HISTORICAL_ROWS == 500
\* trainer.py: window_size=30
WINDOW_SIZE == 30
\* trainer.py: len(df) < 200
MIN_SAMPLES == 200

---------------------------------------------------------------------------
(* Arithmetic helpers *)

Max(a, b) == IF a >= b THEN a ELSE b
Min(a, b) == IF a <= b THEN a ELSE b

\* math.floor(a / b), b > 0
Floor(a, b) == a \div b
\* math.ceil(a / b), b > 0
Ceil(a, b) == -((-a) \div b)

RECURSIVE SumSeq(_)
SumSeq(s) == IF s = <<>> THEN 0 ELSE Head(s) + SumSeq(Tail(s))

RECURSIVE SumSq(_)
SumSq(s) == IF s = <<>> THEN 0 ELSE Head(s) * Head(s) + SumSq(Tail(s))

\* the largest s in lo..hi with s*s <= x  (lo*lo <= x)
RECURSIVE ISqrtIn(_, _, _)
ISqrtIn(lo, hi, x) ==
    IF lo >= hi THEN lo
    ELSE LET mid == (lo + hi + 1) \div 2
         IN IF mid * mid <= x THEN ISqrtIn(mid, hi, x)
            ELSE ISqrtIn(lo, mid - 1, x)

\* floor(sqrt(x)) for 0 <= x <= 4,000,000
ISqrt(x) == ISqrtIn(0, 2000, x)

\* round(num / den, 2) in hundredths, den > 0 (no ties on the inputs used)
Round2(num, den) == (200 * num + den) \div (2 * den)

\* the entries of a sequence
Range(s) == {s[i] : i \in DOMAIN s}

\* s[-n:]
LastN(s, n) == IF Len(s) >= n THEN SubSeq(s, Len(s) - n + 1, Len(s)) ELSE s

---------------------------------------------------------------------------
(* Values *)

\* Python's None
None == [tag |-> "none"]
\* no file at MODEL_PATH
NoFile == [tag |-> "absent"]
\* the file while joblib.dump is writing it, or after a dump that failed midway
PartialFile == [tag |-> "partial"]
IsArtifact(x) == x.tag = "artifact"

Predictors == {"p1", "p2"}
Trainers == {"tr"}
Threads == Predictors \cup Trainers

NoReq == [tag |-> "none"]
NoResp == [kind |-> "none"]
NoTrain == [tag |-> "none"]

Missing == [has |-> FALSE, val |-> 0]
Given(v) == [has |-> TRUE, val |-> v]

\* salesHistory of a payload: a list, the key missing, null, or a string
\* (kept by its characters, digits here: "" and "30")
SalesLists == UNION {[1..n -> SaleValues] : n \in 0..MaxLen}
SalesStrings == {<<>>, <<3, 0>>}
SalesFields ==
    {[kind |-> "list", vals |-> s] : s \in SalesLists}
    \cup {[kind |-> k, vals |-> <<>>] : k \in {"missing", "null"}}
    \cup {[kind |-> "string", vals |-> s] : s \in SalesStrings}

Payloads ==
    [salesHistory : SalesFields,
     currentStock : {Missing} \cup {Given(v) : v \in StockValues},
     leadTimeDays : {Missing} \cup {Given(v) : v \in LeadValues}]

\* the queries of the concurrent specification
SmallPayloads ==
    {[salesHistory |-> [kind |-> "list", vals |-> s],
      currentStock |-> Given(5), leadTimeDays |-> l] :
        s \in {<<>>, <<3, 0>>}, l \in {Missing, Given(1)}}

---------------------------------------------------------------------------
(* predictor.py: predict, lines 73-85 *)

\* payload.get("salesHistory", [])
sales_history(p) ==
    IF p.salesHistory.kind = "missing"
    THEN [kind |-> "list", vals |-> <<>>]
    ELSE p.salesHistory

\* float(payload.get("currentStock", 0))
current_stock(p) ==
    IF p.currentStock.has THEN p.currentStock.val ELSE DEFAULT_STOCK

\* float(payload.get("leadTimeDays", 7))
lead_time(p) ==
    IF p.leadTimeDays.has THEN p.leadTimeDays.val ELSE DEFAULT_LEAD_TIME

\* `not sales_history`: None, an empty list or an empty string is falsy
Falsy(sh) ==
    \/ sh.kind = "null"
    \/ sh.kind \in {"list", "string"} /\ sh.vals = <<>>

ValidateLeadTimeDropped(p) ==
    LET sh == sales_history(p)
    IN IF Falsy(sh) \/ sh.kind # "list"
       THEN "salesHistory must be a non-empty list of numbers"
       ELSE IF current_stock(p) < 0
       THEN "currentStock must be non-negative"
       ELSE "ok"

\* the validation of lines 80-85: the ValueError raised, or "ok"
Validate(p) ==
    LET sh == sales_history(p)
    IN IF Falsy(sh) \/ sh.kind # "list"
       THEN "salesHistory must be a non-empty list of numbers"
       ELSE IF current_stock(p) < 0
       THEN "currentStock must be non-negative"
       ELSE IF lead_time(p) <= 0
       THEN "leadTimeDays must be positive"
       ELSE "ok"

---------------------------------------------------------------------------
(* predictor.py: _heuristic_predict, lines 52-55 *)

heuristic_window_all(sales) == sales

\* window = sales_history[-7:] if len(sales_history) >= 7 else sales_history
heuristic_window(sales) ==
    IF Len(sales) >= HEURISTIC_WINDOW
    THEN SubSeq(sales, Len(sales) - HEURISTIC_WINDOW + 1, Len(sales))
    ELSE sales

\* float(np.mean(window)) if window else 0.0, then round(., 2): hundredths
heuristic_predict(sales) ==
    LET window == heuristic_window(sales)
    IN IF window = <<>> THEN 0
       ELSE Round2(SumSeq(window), Len(window))

---------------------------------------------------------------------------
(* feature_engineering.py: extract_features, the rolling statistics        *)
(* (lines 76-89) that predict reads back for its confidence.               *)
(* A history shorter than MIN_HISTORY_LEN is left-padded with its mean, a  *)
(* fraction; the padded array is kept as integers by scaling every entry   *)
(* by PadScale (mean and standard deviation scale alike, so their ratio    *)
(* is unchanged).                                                          *)

PadScale(sales) ==
    IF Len(sales) < MIN_HISTORY_LEN /\ Len(sales) > 0 THEN Len(sales) ELSE 1

\* arr after the padding, times PadScale(sales)
PaddedArr(sales) ==
    LET n == Len(sales)
    IN IF n < MIN_HISTORY_LEN
       THEN [i \in 1..MIN_HISTORY_LEN |->
               IF i <= MIN_HISTORY_LEN - n
               THEN (IF n > 0 THEN SumSeq(sales) ELSE 0)
               ELSE PadScale(sales) * sales[i - (MIN_HISTORY_LEN - n)]]
       ELSE sales

\* window = arr[-7:]
RollingWindow7(sales) == LastN(PaddedArr(sales), ROLLING_WINDOW_7)

\* rolling_mean_7 * 7 * PadScale
RollingSum7(sales) == SumSeq(RollingWindow7(sales))

\* (rolling_std_7 * 7 * PadScale)^2: np.std(window, ddof=0)
RollingDev7Sq(sales) ==
    ROLLING_WINDOW_7 * SumSq(RollingWindow7(sales))
        - RollingSum7(sales) * RollingSum7(sales)

---------------------------------------------------------------------------
(* feature_engineering.py: extract_features, lines 76-133: the outcome of  *)
(* a call and the keys of the feature dict it returns, in the order the    *)
(* code assigns them.  The values are not kept, except the rolling         *)
(* statistics above.                                                       *)

\* config.py: ROLLING_WINDOWS
ROLLING_WINDOWS == <<7, 14>>

\* the city argument: None, a city of CITY_MAP, one written differently, an
\* unknown one
CityArgs == {"none", "mumbai", " Pune ", "paris"}
\* the ref_date argument: None, an ISO string, a date object
RefDateArgs == {"none", "iso", "date"}

\* the series of a call: n values, the first k equal to a, the others to b
FeatureSeries ==
    {[i \in 1..n |-> IF i <= k THEN ab[1] ELSE ab[2]] :
        n \in 0..MaxSeries, k \in {0, 1, 7}, ab \in SaleValues \X SaleValues}

\* lines 88-89: f"rolling_mean_{w}", f"rolling_std_{w}"
rolling_key(stat, w) ==
    CASE stat = "mean" /\ w = 7 -> "rolling_mean_7"
      [] stat = "std" /\ w = 7 -> "rolling_std_7"
      [] stat = "mean" /\ w = 14 -> "rolling_mean_14"
      [] stat = "std" /\ w = 14 -> "rolling_std_14"

\* lines 86-89: for w in ROLLING_WINDOWS
RECURSIVE rolling_keys(_)
rolling_keys(ws) ==
    IF ws = <<>> THEN <<>>
    ELSE <<rolling_key("mean", Head(ws)), rolling_key("std", Head(ws))>>
         \o rolling_keys(Tail(ws))

lag_keys_when_long(arr) ==
    IF Len(arr) >= 30 THEN <<"lag_7", "lag_30">> ELSE <<"lag_7">>

\* lines 96-97: both lags are set whatever the length (a short array gives
\* arr[0])
lag_keys(arr) ==
    IF Len(arr) >= 30 THEN <<"lag_7", "lag_30">> ELSE <<"lag_7", "lag_30">>

calendar_keys_dated_only(ref_date) ==
    IF ref_date # "none"
    THEN <<"day_of_week", "month", "week_of_year">>
    ELSE <<>>

\* lines 108-119: the calendar features, from ref_date or from the fallback
calendar_keys(ref_date) ==
    IF ref_date # "none"
    THEN <<"day_of_week", "month", "week_of_year">>
    ELSE <<"day_of_week", "month", "week_of_year">>

\* lines 76-133.  arr[0] at line 96 raises IndexError on an empty array,
\* which the padding of lines 79-81 rules out.
extract_features(sales, city, ref_date) ==
    LET arr == PaddedArr(sales)
    IN IF Len(arr) = 0
       THEN [kind |-> "IndexError", keys |-> <<>>, arr |-> arr]
       ELSE [kind |-> "ok",
             keys |-> rolling_keys(ROLLING_WINDOWS)
                      \o <<"rolling_mean_30">>
                      \o lag_keys(arr)
                      \o <<"trend", "last_day_sales">>
                      \o calendar_keys(ref_date)
                      \o <<"city_encoded">>
                      \o <<"current_stock", "lead_time_days">>
                      \o <<"stock_demand_ratio">>,
             arr |-> arr]

---------------------------------------------------------------------------
(* trainer.py: _build_Xy, lines 117-133, and the artifact of lines 200-201 *)

\* the feature names in the order Python's sorted gives strings
KeyOrder ==
    <<"city_encoded", "current_stock", "day_of_week", "lag_30", "lag_7",
      "last_day_sales", "lead_time_days", "month", "rolling_mean_14",
      "rolling_mean_30", "rolling_mean_7", "rolling_std_14", "rolling_std_7",
      "stock_demand_ratio", "trend", "week_of_year">>

IsKeyOf(keys, k) == k \in Range(keys)

\* sorted(keys)
sorted_keys(keys) == SelectSeq(KeyOrder, LAMBDA k : IsKeyOf(keys, k))

\* line 130: feature_names = sorted(feature_dicts[0].keys()), for a first
\* row whose salesHistory has n days; a row of either data source has its
\* city and, as ref_date, an ISO string
build_Xy_feature_names(n) ==
    sorted_keys(extract_features([i \in 1..n |-> 0], "mumbai", "iso").keys)

\* a complete artifact {"model": ..., "feature_names": ...}: version identifies
\* the regressor object
ArtifactOf(v, feature_names) ==
    [tag |-> "artifact", version |-> v, feature_names |-> feature_names]

\* the artifact train_model writes from synthetic data (as _ensure_model
\* does before the service starts)
Artifact(v) == ArtifactOf(v, build_Xy_feature_names(SYNTHETIC_HISTORY_LEN))

\* predict, lines 96-105: X = [feats.get(k, 0.0) for k in feature_names],
\* kept by where each column comes from.  The payloads of the model have
\* no city; ref_date is today's ISO date.
inference_row(p, a) ==
    LET feats == extract_features(sales_history(p).vals, "none", "iso")
    IN [i \in DOMAIN a.feature_names |->
          IF IsKeyOf(feats.keys, a.feature_names[i])
          THEN "value" ELSE "default"]

---------------------------------------------------------------------------
(* predictor.py: predict, lines 108-112: the confidence, in thousandths    *)

\* floor(4,000,000 * n / d) for 0 <= n < d, without leaving 32 bits
Scaled(n, d) ==
    LET a == 4000 * n
    IN 1000 * (a \div d) + (1000 * (a % d)) \div d

confidence_unclamped(sales) ==
    LET S == RollingSum7(sales)
        N == RollingDev7Sq(sales)
    IN IF S <= 0 THEN 0
       ELSE IF N >= S * S THEN -1
       ELSE 1000 - (ISqrt(Scaled(N, S * S)) + 1) \div 2

\* cv = rolling_std / rolling_mean if rolling_mean > 0 else 1.0
\* confidence = round(max(0.0, min(1.0, 1.0 - cv)), 3)
\* cv = sqrt(N) / S, so round(1000 * cv) = (floor(sqrt(4,000,000 N / S^2)) + 1) div 2
confidence(sales) ==
    LET S == RollingSum7(sales)
        N == RollingDev7Sq(sales)
    IN IF S <= 0 THEN 0
       ELSE IF N >= S * S THEN 0
       ELSE 1000 - (ISqrt(Scaled(N, S * S)) + 1) \div 2

---------------------------------------------------------------------------
(* predictor.py: predict, lines 119-131: post-processing                   *)

\* predicted_demand = max(0.0, round(predicted_demand, 2)), in hundredths
post_demand(rounded) == Max(0, rounded)

\* days_to_stockout, demand in hundredths
days_to_stockout(stock, demand) ==
    IF demand > 0
    THEN Max(0, Floor(100 * stock, demand))
    ELSE NEVER

suggested_qty_floor(demand, lead) ==
    Max(0, Floor(demand * lead * SAFETY_FACTOR, 10000))

\* suggested_qty = max(0, math.ceil(predicted_demand * lead_time * SAFETY_FACTOR))
suggested_qty(demand, lead) ==
    Max(0, Ceil(demand * lead * SAFETY_FACTOR, 10000))

\* lines 92-139: the result of predict for a valid payload p, given the value
\* a that _load_model returned and the regressor's raw output (thousandths)
predict_result(p, a, raw) ==
    LET sales == sales_history(p).vals
        stock == current_stock(p)
        lead == lead_time(p)
        demand == IF a # None
                  THEN post_demand(Round2(raw, 1000))
                  ELSE post_demand(heuristic_predict(sales))
    IN [kind |-> "ok",
        predictedDailyDemand |-> demand,
        daysToStockout |-> days_to_stockout(stock, demand),
        suggestedReorderQty |-> suggested_qty(demand, lead),
        confidence |-> IF a # None THEN confidence(sales)
                       ELSE HEURISTIC_CONFIDENCE,
        method |-> IF a # None THEN "xgboost" ELSE "heuristic"]

---------------------------------------------------------------------------
(* trainer.py: the data source of train_model, lines 155-171.              *)
(* A historical export is kept by what train_model reads of it: whether    *)
(* the file exists, and the number of rows of each (productId, city)       *)
(* group.                                                                  *)

NoExport == [present |-> FALSE, groups |-> <<>>]
Export(g) == [present |-> TRUE, groups |-> g]
Rep(n, k) == [i \in 1..k |-> n]

\* the exports of the model: no file; an empty list; the 50 rows of one
\* pair; 499 rows; 500 rows giving 200 samples; 500 rows giving 180
\* samples; 527 rows giving 17 samples; 530 rows giving 500 samples
Exports ==
    {NoExport, Export(<<>>), Export(<<50>>),
     Export(Rep(50, 9) \o <<49>>), Export(Rep(50, 10)),
     Export(Rep(50, 9) \o <<49, 1>>), Export(Rep(31, 17)),
     Export(<<530>>)}

\* len(rows)
RowCount(h) == SumSeq(h.groups)

\* _load_historical_json, lines 45-63: None without a file or with no rows
load_historical_json(h) == h.present /\ RowCount(h) > 0

\* _build_sliding_windows, lines 92-95: the samples of one group of n rows
group_samples(n, window_size) ==
    IF n < window_size + 1 THEN 0 ELSE n - window_size

\* len(_build_sliding_windows(rows, window_size))
RECURSIVE build_sliding_windows_len(_, _)
build_sliding_windows_len(groups, window_size) ==
    IF groups = <<>> THEN 0
    ELSE group_samples(Head(groups), window_size)
         + build_sliding_windows_len(Tail(groups), window_size)

dataset_no_row_floor(h, n_samples) ==
    IF load_historical_json(h)
    THEN LET n == build_sliding_windows_len(h.groups, WINDOW_SIZE)
         IN IF n < MIN_SAMPLES
            THEN [data_source |-> "historical+synthetic", len |-> n + n_samples]
            ELSE [data_source |-> "historical", len |-> n]
    ELSE [data_source |-> "synthetic", len |-> n_samples]

\* train_model, lines 155-171: data_source and len(df)
dataset(h, n_samples) ==
    IF load_historical_json(h) /\ RowCount(h) >= MIN_HISTORICAL_ROWS
    THEN LET n == build_sliding_windows_len(h.groups, WINDOW_SIZE)
         IN IF n < MIN_SAMPLES
            THEN [data_source |-> "historical+synthetic", len |-> n + n_samples]
            ELSE [data_source |-> "historical", len |-> n]
    ELSE [data_source |-> "synthetic", len |-> n_samples]

---------------------------------------------------------------------------
(* trainer.py: _build_sliding_windows, lines 66-110, on the rows            *)
(* themselves.  A string is a sequence of characters, so that the key      *)
(* f"{productId}|{city}" is the concatenation the code computes; a date is *)
(* an ISO string of fixed width, kept by the digits of its day, and        *)
(* compared as Python compares strings.  currentStock and leadTimeDays of  *)
(* a sample are draws of a seeded generator and are left out.              *)

\* r["productId"] and r["city"] of the rows of an export
ProductIds == {<<"p">>, <<"p", "|", "x">>}
Cities == {<<"y">>, <<"x", "|", "y">>}
RowPairs ==
    {pc2 \in ProductIds \X Cities : ~(Len(pc2[1]) = 3 /\ Len(pc2[2]) = 3)}
\* r["date"]: "...-09" and "...-10"
Dates == {<<0, 9>>, <<1, 0>>}
\* r["quantitySold"]
Quantities == {1, 2}
\* window_size of a call
WindowSizes == {1, 2}

HistoryRows ==
    {[productId |-> pr[1], city |-> pr[2], date |-> d, quantitySold |-> q] :
        pr \in RowPairs, d \in Dates, q \in Quantities}
RowLists == UNION {[1..n -> HistoryRows] : n \in 0..MaxRows}

\* line 80: key = f"{r['productId']}|{r['city']}"
Key(r) == r.productId \o <<"|">> \o r.city

\* Python's a < b on strings: by the first character that differs
RECURSIVE StrLess(_, _)
StrLess(a, b) ==
    IF b = <<>> THEN FALSE
    ELSE IF a = <<>> THEN TRUE
    ELSE IF Head(a) # Head(b) THEN Head(a) < Head(b)
    ELSE StrLess(Tail(a), Tail(b))

\* lines 78-81: groups[key].append(r); a dict keeps its keys in the order
\* of their first insertion
AddToGroup(groups, r) ==
    IF \E i \in DOMAIN groups : groups[i].key = Key(r)
    THEN [i \in DOMAIN groups |->
            IF groups[i].key = Key(r)
            THEN [groups[i] EXCEPT !.series = Append(@, r)]
            ELSE groups[i]]
    ELSE Append(groups, [key |-> Key(r), series |-> <<r>>])

RECURSIVE group_rows(_, _)
group_rows(groups, rows) ==
    IF rows = <<>> THEN groups
    ELSE group_rows(AddToGroup(groups, Head(rows)), Tail(rows))

\* r goes before the first entry with a greater date: rows of one date keep
\* their order (list.sort is stable)
RECURSIVE InsertByDate(_, _)
InsertByDate(sorted, r) ==
    IF sorted = <<>> THEN <<r>>
    ELSE IF StrLess(r.date, Head(sorted).date) THEN <<r>> \o sorted
    ELSE <<Head(sorted)>> \o InsertByDate(Tail(sorted), r)

\* line 87: series.sort(key=lambda r: r["date"])
RECURSIVE sort_by_date(_)
sort_by_date(series) ==
    IF series = <<>> THEN <<>>
    ELSE InsertByDate(sort_by_date(SubSeq(series, 1, Len(series) - 1)),
                      series[Len(series)])

\* lines 88-107: the samples of one sorted group
group_windows(series, window_size) ==
    LET sales == [i \in DOMAIN series |-> series[i].quantitySold]
        dates == [i \in DOMAIN series |-> series[i].date]
    IN IF Len(sales) < window_size + 1 THEN <<>>
       ELSE [i \in 1..(Len(sales) - window_size) |->
               [salesHistory |-> SubSeq(sales, i, i + window_size - 1),
                nextDayDemand |-> sales[i + window_size],
                city |-> series[1].city,
                ref_date |-> dates[i + window_size]]]

---------------------------------------------------------------------------
(* State machine *)

Init ==
    /\ storage \in {NoFile, Artifact(0)}
    /\ cache = None
    /\ pc = [t \in Threads |-> "idle"]
    /\ req = [t \in Threads |-> NoReq]
    /\ tmp = [t \in Threads |-> None]
    /\ art = [t \in Threads |-> None]
    /\ resp = [t \in Threads |-> NoResp]
    /\ train = NoTrain
    /\ trained = 0

\* predict, lines 73-88: read the payload, validate, then call _load_model
PredictCall(t, p) ==
    /\ pc[t] = "idle"
    /\ req' = [req EXCEPT ![t] = p]
    /\ IF Validate(p) = "ok"
       THEN /\ pc' = [pc EXCEPT ![t] = "lm_check"]
            /\ resp' = resp
       ELSE /\ pc' = [pc EXCEPT ![t] = "done"]
            /\ resp' = [resp EXCEPT ![t] =
                          [kind |-> "ValueError", error |-> Validate(p)]]
    /\ UNCHANGED <<storage, cache, tmp, art, train, trained>>

\* _load_model, line 35: if _model_cache is not None
LmCheck(t) ==
    /\ pc[t] = "lm_check"
    /\ pc' = [pc EXCEPT ![t] =
                IF cache # None THEN "lm_ret_cached" ELSE "lm_exists"]
    /\ UNCHANGED <<storage, cache, req, tmp, art, resp, train, trained>>

\* where _load_model returns to: predict (line 88) or reload_model (line 49)
AfterLoadModel(t) == IF t \in Predictors THEN "compute" ELSE "rl_ret"

\* _load_model, line 36: return _model_cache (read again)
LmRetCached(t) ==
    /\ pc[t] = "lm_ret_cached"
    /\ art' = [art EXCEPT ![t] = cache]
    /\ pc' = [pc EXCEPT ![t] = AfterLoadModel(t)]
    /\ UNCHANGED <<storage, cache, req, tmp, resp, train, trained>>

\* _load_model, line 37 and lines 41-42: os.path.exists(MODEL_PATH)
LmExists(t) ==
    /\ pc[t] = "lm_exists"
    /\ IF storage # NoFile
       THEN /\ pc' = [pc EXCEPT ![t] = "lm_load"]
            /\ art' = art
       ELSE /\ pc' = [pc EXCEPT ![t] = AfterLoadModel(t)]
            /\ art' = [art EXCEPT ![t] = None]
    /\ UNCHANGED <<storage, cache, req, tmp, resp, train, trained>>

\* the outcome of an exception that leaves _load_model: predict lets it
\* through to its caller, trigger_retrain (lines 87-88) answers 500
Raised(t, what) ==
    IF t \in Predictors
    THEN [kind |-> "Exception", error |-> what]
    ELSE [kind |-> "http", status |-> 500, error |-> what,
          data_source |-> "none", reloaded |-> FALSE]

\* _load_model, line 39, right-hand side: joblib.load(MODEL_PATH).
\* A complete file unpickles to its artifact; a file that joblib.dump has
\* opened and not finished writing is a truncated pickle, and load raises.
LmLoad(t) ==
    /\ pc[t] = "lm_load"
    /\ IF IsArtifact(storage)
       THEN /\ tmp' = [tmp EXCEPT ![t] = storage]
            /\ pc' = [pc EXCEPT ![t] = "lm_store"]
            /\ resp' = resp
       ELSE /\ tmp' = tmp
            /\ pc' = [pc EXCEPT ![t] = "done"]
            /\ resp' = [resp EXCEPT ![t] = Raised(t, "truncated artifact")]
    /\ UNCHANGED <<storage, cache, req, art, train, trained>>

\* _load_model, line 39, the assignment: _model_cache = <loaded value>
LmStore(t) ==
    /\ pc[t] = "lm_store"
    /\ cache' = tmp[t]
    /\ tmp' = [tmp EXCEPT ![t] = None]
    /\ pc' = [pc EXCEPT ![t] = "lm_ret_loaded"]
    /\ UNCHANGED <<storage, req, art, resp, train, trained>>

\* _load_model, line 40: return _model_cache (read again)
LmRetLoaded(t) ==
    /\ pc[t] = "lm_ret_loaded"
    /\ art' = [art EXCEPT ![t] = cache]
    /\ pc' = [pc EXCEPT ![t] = AfterLoadModel(t)]
    /\ UNCHANGED <<storage, cache, req, tmp, resp, train, trained>>

\* predict, lines 89-153, with raw the regressor's output for the query
PredictCompute(t, raw) ==
    /\ pc[t] = "compute"
    /\ resp' = [resp EXCEPT ![t] = predict_result(req[t], art[t], raw)]
    /\ pc' = [pc EXCEPT ![t] = "done"]
    /\ UNCHANGED <<storage, cache, req, tmp, art, train, trained>>

\* the call has returned; the thread takes the next request
Return(t) ==
    /\ pc[t] = "done"
    /\ pc' = [pc EXCEPT ![t] = "idle"]
    /\ req' = [req EXCEPT ![t] = NoReq]
    /\ art' = [art EXCEPT ![t] = None]
    /\ resp' = [resp EXCEPT ![t] = NoResp]
    /\ train' = IF t \in Trainers THEN NoTrain ELSE train
    /\ UNCHANGED <<storage, cache, tmp, trained>>

\* trigger_retrain, lines 78-79: retrain() -> train_model() begins
TriggerRetrain(t) ==
    /\ pc[t] = "idle"
    /\ trained < MaxTrains
    /\ trained' = trained + 1
    /\ train' = [tag |-> "run", version |-> trained + 1, before |-> storage,
                 historical |-> NoExport, data_source |-> "none", len |-> 0,
                 feature_names |-> <<>>]
    /\ pc' = [pc EXCEPT ![t] = "tm_data"]
    /\ UNCHANGED <<storage, cache, req, tmp, art, resp>>

\* an exception in train_model: trigger_retrain, lines 87-88, answers 500
Failed(t, what) ==
    /\ pc' = [pc EXCEPT ![t] = "done"]
    /\ resp' = [resp EXCEPT ![t] = Raised(t, what)]

\* train_model, lines 155-173: read the export h and build the samples;
\* json.load or a row without its keys raises
TrainData(t, h, ok) ==
    /\ pc[t] = "tm_data"
    /\ IF ok
       THEN /\ train' = [train EXCEPT
                           !.historical = h,
                           !.data_source = dataset(h, SYNTHETIC_SAMPLES).data_source,
                           !.len = dataset(h, SYNTHETIC_SAMPLES).len]
            /\ pc' = [pc EXCEPT ![t] = "tm_fit"]
            /\ resp' = resp
       ELSE /\ train' = train
            /\ Failed(t, "loading or building the samples failed")
    /\ UNCHANGED <<storage, cache, req, tmp, art, trained>>

\* the days of the first row of df: a historical window when there is one,
\* else a synthetic history
first_row_len(h, data_source) ==
    IF data_source # "synthetic"
       /\ build_sliding_windows_len(h.groups, WINDOW_SIZE) > 0
    THEN WINDOW_SIZE
    ELSE SYNTHETIC_HISTORY_LEN

\* train_model, lines 175-196: features, split, fit, evaluate
TrainFit(t, ok) ==
    /\ pc[t] = "tm_fit"
    /\ train' = [train EXCEPT
                   !.historical = NoExport, !.len = 0,
                   !.feature_names =
                       IF ok
                       THEN build_Xy_feature_names(
                                first_row_len(train.historical, train.data_source))
                       ELSE <<>>]
    /\ IF ok
       THEN /\ pc' = [pc EXCEPT ![t] = "tm_open"]
            /\ resp' = resp
       ELSE Failed(t, "feature extraction or fit failed")
    /\ UNCHANGED <<storage, cache, req, tmp, art, trained>>

\* train_model, lines 199-201: os.makedirs, then joblib.dump opens
\* MODEL_PATH for writing, which truncates the file that is there
DumpOpen(t, ok) ==
    /\ pc[t] = "tm_open"
    /\ IF ok
       THEN /\ storage' = PartialFile
            /\ pc' = [pc EXCEPT ![t] = "tm_write"]
            /\ resp' = resp
       ELSE /\ storage' = storage
            /\ Failed(t, "the artifact file cannot be opened")
    /\ UNCHANGED <<cache, req, tmp, art, train, trained>>

\* train_model, lines 201-204: joblib.dump writes the pickle to its end and
\* train_model returns its metrics; or the write fails midway
DumpWrite(t, ok) ==
    /\ pc[t] = "tm_write"
    /\ IF ok
       THEN /\ storage' = ArtifactOf(train.version, train.feature_names)
            /\ pc' = [pc EXCEPT ![t] = "rl_clear"]
            /\ resp' = resp
       ELSE /\ storage' = storage
            /\ Failed(t, "writing the artifact failed")
    /\ UNCHANGED <<cache, req, tmp, art, train, trained>>

\* reload_model, line 48: _model_cache = None; line 49 calls _load_model
ReloadClear(t) ==
    /\ pc[t] = "rl_clear"
    /\ cache' = None
    /\ pc' = [pc EXCEPT ![t] = "lm_check"]
    /\ UNCHANGED <<storage, req, tmp, art, resp, train, trained>>

\* reload_model, line 49: return _load_model() is not None;
\* trigger_retrain, lines 81-85: answer 200 with the metrics
ReloadReturn(t) ==
    /\ pc[t] = "rl_ret"
    /\ resp' = [resp EXCEPT ![t] =
                  [kind |-> "http", status |-> 200, error |-> "",
                   data_source |-> train.data_source,
                   reloaded |-> (art[t] # None)]]
    /\ pc' = [pc EXCEPT ![t] = "done"]
    /\ UNCHANGED <<storage, cache, req, tmp, art, train, trained>>

\* the steps of a /retrain request on thread t
Retrain(t) ==
    \/ TriggerRetrain(t)
    \/ pc[t] = "tm_data" /\ \E h \in Exports, ok \in BOOLEAN : TrainData(t, h, ok)
    \/ \E ok \in BOOLEAN : TrainFit(t, ok)
    \/ \E ok \in BOOLEAN : DumpOpen(t, ok)
    \/ \E ok \in BOOLEAN : DumpWrite(t, ok)
    \/ ReloadClear(t)
    \/ ReloadReturn(t)

\* a caller invokes predict on thread t with one of the payloads P
Predict(t, P) ==
    /\ pc[t] = "idle"
    /\ \E p \in P : PredictCall(t, p)

\* model.predict answers the query of thread t with one of the outputs R
Compute(t, R) ==
    /\ pc[t] = "compute"
    /\ \E raw \in R : PredictCompute(t, raw)

LoadModelStep(t) ==
    \/ LmCheck(t)
    \/ LmRetCached(t)
    \/ LmExists(t)
    \/ LmLoad(t)
    \/ LmStore(t)
    \/ LmRetLoaded(t)

\* one predictor thread answering queries one after the other
NextPredict ==
    \/ Predict("p1", Payloads)
    \/ LoadModelStep("p1")
    \/ Compute("p1", ModelOutputs)
    \/ Return("p1")

SpecPredict == Init /\ [][NextPredict]_vars

Next ==
    \/ \E t \in Predictors : Predict(t, SmallPayloads)
    \/ \E t \in Threads : LoadModelStep(t)
    \/ \E t \in Predictors : Compute(t, SmallOutputs)
    \/ \E t \in Threads : Return(t)
    \/ \E t \in Trainers : Retrain(t)

Spec == Init /\ [][Next]_vars

---------------------------------------------------------------------------
(* _build_sliding_windows called on its own *)

\* lines 78-84: the call, with the rows grouped
WindowsCall(t, rows, window_size) ==
    /\ pc[t] = "idle"
    /\ train' = [tag |-> "windows", rows |-> rows, window_size |-> window_size,
                 groups |-> group_rows(<<>>, rows), next |-> 1,
                 samples |-> <<>>]
    /\ pc' = [pc EXCEPT ![t] = "bw_loop"]
    /\ UNCHANGED <<storage, cache, req, tmp, art, resp, trained>>

\* lines 86-107: one turn of the loop over the groups: the group is sorted
\* in place, then skipped or slid over
WindowsGroup(t) ==
    /\ pc[t] = "bw_loop"
    /\ train.next <= Len(train.groups)
    /\ LET series == sort_by_date(train.groups[train.next].series)
       IN train' = [train EXCEPT
                      !.groups[train.next].series = series,
                      !.next = @ + 1,
                      !.samples = @ \o group_windows(series, train.window_size)]
    /\ UNCHANGED <<storage, cache, pc, req, tmp, art, resp, trained>>

\* line 110: return pd.DataFrame(samples)
WindowsReturn(t) ==
    /\ pc[t] = "bw_loop"
    /\ train.next > Len(train.groups)
    /\ resp' = [resp EXCEPT ![t] = [kind |-> "samples", samples |-> train.samples]]
    /\ pc' = [pc EXCEPT ![t] = "done"]
    /\ UNCHANGED <<storage, cache, req, tmp, art, train, trained>>

Windows(t) ==
    /\ pc[t] = "idle"
    /\ \E rows \in RowLists, w \in WindowSizes : WindowsCall(t, rows, w)

NextWindows ==
    \/ Windows("tr")
    \/ WindowsGroup("tr")
    \/ WindowsReturn("tr")
    \/ Return("tr")

SpecWindows == Init /\ [][NextWindows]_vars

---------------------------------------------------------------------------
(* extract_features called on its own *)

ExtractCall(t, sales, city, ref_date) ==
    /\ pc[t] = "idle"
    /\ req' = [req EXCEPT ![t] = [tag |-> "features", sales |-> sales,
                                  city |-> city, ref_date |-> ref_date]]
    /\ resp' = [resp EXCEPT ![t] = extract_features(sales, city, ref_date)]
    /\ pc' = [pc EXCEPT ![t] = "done"]
    /\ UNCHANGED <<storage, cache, tmp, art, train, trained>>

Extract(t) ==
    /\ pc[t] = "idle"
    /\ \E sales \in FeatureSeries, city \in CityArgs, ref_date \in RefDateArgs :
          ExtractCall(t, sales, city, ref_date)

NextFeatures ==
    \/ Extract("p1")
    \/ Return("p1")

SpecFeatures == Init /\ [][NextFeatures]_vars

---------------------------------------------------------------------------
(* Properties *)

\* thread t has completed a predict call that returned a result
Answered(t) == pc[t] = "done" /\ resp[t].kind = "ok"

\* the step is reload_model's `_model_cache = None`
ReloadClearStep ==
    \E t \in Threads : pc[t] = "rl_clear" /\ pc'[t] = "lm_check" /\ cache' = None

\* C1: once an artifact is in the cache, the cache (which every later
\* predict call answers from) keeps that artifact until reload_model is
\* invoked: a loaded cache changes at no step other than reload_model's
\* clearing of it.
C1_CachedArtifactKept ==
    [][(cache # None /\ cache' # cache) => ReloadClearStep]_vars

\* thread t is inside the check-clear-load-assign sequence on _model_cache:
\* past the check of _load_model, or past the clear of reload_model
InCacheSequence(t) ==
    \/ pc[t] \in {"lm_ret_cached", "lm_exists", "lm_load", "lm_store",
                  "lm_ret_loaded"}
    \/ t \in Trainers /\ pc[t] = "lm_check"

\* C2: reload_model and predict's _load_model are mutually exclusive: a
\* reload and a predict call are never inside the check-clear-load-assign
\* sequence on _model_cache at the same time.
C2_ReloadExcludesCacheAccess ==
    \A r \in Trainers, p \in Predictors :
        ~(InCacheSequence(r) /\ InCacheSequence(p))

\* C3: the artifact is written atomically: no load from MODEL_PATH, by
\* predict's first use or by reload_model, reads a partially written file.
C3_LoadNeverReadsPartialFile ==
    \A t \in Threads :
        ~(resp[t].kind \in {"Exception", "http"}
          /\ resp[t].error = "truncated artifact")

\* C4: when a retrain fails, at whatever step, the failure reaches the
\* retrain caller (the 500 answer) and the artifact persisted before the
\* retrain is still the file at MODEL_PATH.  (The cache is written by
\* reload_model alone, which a failed retrain does not reach.)
C4_FailedRetrainKeepsArtifact ==
    \A t \in Trainers :
        (pc[t] = "done" /\ resp[t].kind = "http" /\ resp[t].status = 500
                       /\ IsArtifact(train.before))
            => storage = train.before

\* the sum of the last k entries of s (of all of them when it has fewer)
RECURSIVE TailSum(_, _)
TailSum(s, k) ==
    IF k = 0 \/ Len(s) = 0 THEN 0
    ELSE s[Len(s)] + TailSum(SubSeq(s, 1, Len(s) - 1), k - 1)

\* C5: with no artifact in storage and none cached, predict on a valid
\* query answers (it does not fail) with method "heuristic", confidence 0.5
\* and the mean of the last 7 sales values (of all when fewer), rounded to
\* 2 decimals and floored at 0; an answer that used an artifact is tagged
\* "xgboost".
C5_HeuristicFallback ==
    \A t \in Predictors :
        /\ (pc[t] = "done" /\ storage = NoFile /\ resp[t].kind # "ValueError")
              => resp[t].kind = "ok"
        /\ Answered(t) =>
              LET sales == req[t].salesHistory.vals
                  k == Min(Len(sales), 7)
                  sum == TailSum(sales, 7)
                  d == resp[t].predictedDailyDemand
              IN /\ storage = NoFile => art[t] = None
                 /\ art[t] = None =>
                      /\ resp[t].method = "heuristic"
                      /\ resp[t].confidence = 500
                      /\ d >= 0
                      \* d/100 is the multiple of 0.01 nearest to sum/k
                      /\ 2 * (k * d - 100 * sum) <= k
                      /\ 2 * (100 * sum - k * d) <= k
                 /\ art[t] # None => resp[t].method = "xgboost"

\* a heuristic answer to a query of 8 days whose oldest day is outside the
\* window: mean(0,0,0,0,0,0,3) = 0.43, not mean of all 8 = 0.75
C5_Witness ==
    \E t \in Predictors :
        /\ Answered(t)
        /\ art[t] = None
        /\ req[t].salesHistory.vals = <<3, 0, 0, 0, 0, 0, 0, 3>>
        /\ resp[t].predictedDailyDemand = 43
        /\ resp[t].method = "heuristic"

\* the conditions under which the claim has a query rejected
BadQuery(p) ==
    \/ p.salesHistory.kind # "list"
    \/ Len(p.salesHistory.vals) = 0
    \/ p.currentStock.has /\ p.currentStock.val < 0
    \/ p.leadTimeDays.has /\ p.leadTimeDays.val <= 0

\* C6: predict rejects with a ValueError exactly the queries whose sales
\* history is empty or not a list, whose stock is negative or whose lead
\* time is not positive, and it does so before model resolution: a
\* rejected query never enters _load_model and the step that rejects it
\* leaves the cache as it was.
C6_ValidationBeforeModelResolution ==
    /\ [](\A t \in Predictors :
            /\ pc[t] \notin {"idle", "done"} => ~BadQuery(req[t])
            /\ pc[t] = "done" =>
                 (BadQuery(req[t]) <=> resp[t].kind = "ValueError"))
    /\ [][\A t \in Predictors :
            (pc[t] = "idle" /\ pc'[t] # "idle" /\ BadQuery(req'[t]))
              => /\ pc'[t] = "done"
                 /\ resp'[t].kind = "ValueError"
                 /\ cache' = cache /\ tmp' = tmp /\ art' = art]_vars

\* a query rejected for its lead time only, the artifact cached before it
\* still in the cache
C6_Witness ==
    \E t \in Predictors :
        /\ pc[t] = "done"
        /\ resp[t].kind = "ValueError"
        /\ req[t].salesHistory.kind = "list"
        /\ Len(req[t].salesHistory.vals) > 0
        /\ req[t].currentStock = Given(5)
        /\ req[t].leadTimeDays = Given(0)
        /\ cache = Artifact(0)

\* C7: daysToStockout is the sentinel 999 exactly when the post-processed
\* demand is 0, and floor(currentStock / predictedDemand) otherwise.
C7_StockoutSentinel ==
    \A t \in Predictors :
        Answered(t) =>
            LET d == resp[t].predictedDailyDemand
                stock == IF req[t].currentStock.has
                         THEN req[t].currentStock.val ELSE 0
                days == resp[t].daysToStockout
            IN /\ (days = 999) <=> (d = 0)
               /\ d > 0 => /\ days * d <= 100 * stock
                           /\ 100 * stock < (days + 1) * d

\* the lead time of a query as the claim reads it
QueryLead(p) == IF p.leadTimeDays.has THEN p.leadTimeDays.val ELSE 7

\* the post-processed demands and the lead times of the model's queries
Demands ==
    {Max(0, Round2(r, 1000)) : r \in ModelOutputs}
    \cup {Max(0, Round2(TailSum(s, 7), Min(Len(s), 7))) :
            s \in SalesLists \ {<<>>}}
Leads == {QueryLead(p) : p \in {q \in Payloads : ~BadQuery(q)}}

\* C8: suggestedReorderQty is max(0, ceil(demand * leadTime * 1.25)), a
\* non-negative integer, non-decreasing in the lead time for a fixed
\* demand and in the demand for a fixed lead time.
C8_ReorderQtyMonotone ==
    \A t \in Predictors :
        Answered(t) =>
            LET d == resp[t].predictedDailyDemand
                l == QueryLead(req[t])
                q == resp[t].suggestedReorderQty
            IN /\ q \in Nat
               \* q is the least integer >= d/100 * l * 1.25
               /\ 10000 * q >= d * l * 125
               /\ 10000 * (q - 1) < d * l * 125
               /\ \A l2 \in Leads : l2 >= l => suggested_qty(d, l2) >= q
               /\ \A l2 \in Leads : l2 <= l => suggested_qty(d, l2) <= q
               /\ \A d2 \in Demands : d2 >= d => suggested_qty(d2, l) >= q
               /\ \A d2 \in Demands : d2 <= d => suggested_qty(d2, l) <= q

\* demand 2.50 with lead time 3: 9.375 rounds up to 10
C8_Witness ==
    \E t \in Predictors :
        /\ Answered(t)
        /\ resp[t].predictedDailyDemand = 250
        /\ req[t].leadTimeDays = Given(3)
        /\ resp[t].suggestedReorderQty = 10

\* 7 * PadScale times the rolling mean, and the square of 7 * PadScale
\* times the rolling standard deviation, of the last 7 entries of the
\* history left-padded with its mean to 14 entries
ClaimSum7(sales) ==
    IF Len(sales) >= 7 THEN TailSum(sales, 7) ELSE 7 * TailSum(sales, 7)
ClaimSumSq7(sales) ==
    LET n == Len(sales)
        sq == [i \in 1..n |-> sales[i] * sales[i]]
    IN IF n >= 7 THEN TailSum(sq, 7)
       ELSE (7 - n) * TailSum(sales, 7) * TailSum(sales, 7)
            + n * n * TailSum(sq, 7)
ClaimDevSq7(sales) ==
    7 * ClaimSumSq7(sales) - ClaimSum7(sales) * ClaimSum7(sales)

\* C9 as stated: the confidence is within [0,1]; on the model path it is
\* 1 - rolling_std_7 / rolling_mean_7 clamped to [0,1], and 0 when
\* rolling_mean_7 is not positive; on the heuristic path it is 0.5.
C9_ConfidenceIsClampedRatio ==
    \A t \in Predictors :
        Answered(t) =>
            LET c == resp[t].confidence
                S == ClaimSum7(req[t].salesHistory.vals)
                N == ClaimDevSq7(req[t].salesHistory.vals)
                r == ISqrt(N)
            IN /\ c \in 0..1000
               /\ art[t] = None => c = 500
               /\ (art[t] # None /\ S <= 0) => c = 0
               /\ (art[t] # None /\ S > 0 /\ N >= S * S) => c = 0
               \* 1 - c/1000 = sqrt(N) / S
               /\ (art[t] # None /\ S > 0 /\ N < S * S) =>
                      (r * r = N /\ (1000 - c) * S = 1000 * r)

\* C9, amended: as above, with the clamped value rounded to 3 decimals.
C9_ConfidenceRounded ==
    \A t \in Predictors :
        Answered(t) =>
            LET c == resp[t].confidence
                S == ClaimSum7(req[t].salesHistory.vals)
                N == ClaimDevSq7(req[t].salesHistory.vals)
                j == 1000 - c
            IN /\ c \in 0..1000
               /\ art[t] = None => c = 500
               /\ (art[t] # None /\ S <= 0) => c = 0
               /\ (art[t] # None /\ S > 0 /\ N >= S * S) => c = 0
               \* |(1 - c/1000) - sqrt(N)/S| < 0.0005
               /\ (art[t] # None /\ S > 0 /\ N < S * S) =>
                      /\ (j >= 1 => (2 * j - 1) * (2 * j - 1) <= Scaled(N, S * S))
                      /\ Scaled(N, S * S) < (2 * j + 1) * (2 * j + 1)

\* six days of 3 and one of 0: std/mean = 0.408..., confidence 0.592;
\* and a series whose ratio exceeds 1 is clamped to 0
C9_Witness ==
    \E t \in Predictors :
        /\ Answered(t)
        /\ art[t] # None
        /\ req[t].salesHistory.vals = <<3, 3, 3, 3, 3, 3, 0>>
        /\ resp[t].confidence = 592

\* the sliding-window samples of an export, by the claim's count: n - 30
\* for each pair with more than 30 rows
RECURSIVE ClaimSamples(_)
ClaimSamples(g) ==
    IF g = <<>> THEN 0
    ELSE (IF Head(g) > 30 THEN Head(g) - 30 ELSE 0) + ClaimSamples(Tail(g))

\* the trainer has built its samples from the export train.historical
Built(t) == pc[t] = "tm_fit" /\ train.historical.present

\* C10 as stated: an export that is present and gives fewer than 200
\* samples is supplemented with synthetic samples and reported as a
\* combined source; so is the export of 50 rows of one pair (at most 20
\* samples).
C10_SmallExportSupplemented ==
    \A t \in Trainers :
        (Built(t) /\ RowCount(train.historical) > 0
                  /\ ClaimSamples(train.historical.groups) < 200)
            => /\ train.data_source = "historical+synthetic"
               /\ train.len = ClaimSamples(train.historical.groups) + 2000

\* C10, amended: supplementing needs an export of at least 500 rows; an
\* export with fewer rows (the scenario's 50, at most 20 samples) is left
\* out and the training data is synthetic only.
C10_SupplementNeeds500Rows ==
    \A t \in Trainers :
        Built(t) =>
            LET h == train.historical
                n == ClaimSamples(h.groups)
            IN /\ (RowCount(h) >= 500 /\ n < 200)
                    => /\ train.data_source = "historical+synthetic"
                       /\ train.len = n + 2000
               /\ (RowCount(h) >= 500 /\ n >= 200)
                    => /\ train.data_source = "historical"
                       /\ train.len = n
               /\ RowCount(h) < 500
                    => /\ train.data_source = "synthetic"
                       /\ train.len = 2000
               /\ h = Export(<<50>>) => n <= 20

\* 527 rows in 17 pairs of 31 rows give 17 samples, supplemented to 2017
C10_Witness ==
    \E t \in Trainers :
        /\ Built(t)
        /\ train.historical = Export(Rep(31, 17))
        /\ train.data_source = "historical+synthetic"
        /\ train.len = 2017

\* the (productId, city) pair of a row, and the day its date names
PairOf(r) == <<r.productId, r.city>>
DateValue(d) == 10 * d[1] + d[2]
\* how often x occurs in the sequence s
Count(s, x) == Cardinality({i \in DOMAIN s : s[i] = x})

\* the windows and labels the claim gives a sorted group of n rows: none
\* when n < w + 1, else n - w, the i-th over positions i..i+w-1 with the
\* label at position i+w
ClaimGroupSamples(series, w) ==
    IF Len(series) < w + 1 THEN <<>>
    ELSE [i \in 1..(Len(series) - w) |->
            [salesHistory |-> [j \in 1..w |-> series[i + j - 1].quantitySold],
             nextDayDemand |-> series[i + w].quantitySold]]

RECURSIVE ClaimAllSamples(_, _)
ClaimAllSamples(groups, w) ==
    IF groups = <<>> THEN <<>>
    ELSE ClaimGroupSamples(Head(groups).series, w)
         \o ClaimAllSamples(Tail(groups), w)

\* C11: _build_sliding_windows groups the rows by (productId, city): each
\* group holds exactly the rows of one pair, no group (hence no sample)
\* mixes the rows of two pairs; each group is sorted by date ascending
\* whatever the order of the input; a group of fewer than window+1 rows
\* gives no sample and a group of n >= window+1 rows gives n - window
\* samples, the i-th with the quantities at sorted positions i..i+window-1
\* and the label at position i+window.
C11_SlidingWindowsPerGroup ==
    \A t \in Trainers :
        (pc[t] = "done" /\ resp[t].kind = "samples") =>
            LET rows == train.rows
                w == train.window_size
                G == train.groups
                out == resp[t].samples
            IN /\ \A i \in DOMAIN G :
                    /\ \A r \in HistoryRows :
                         Count(G[i].series, r) =
                            (IF PairOf(r) = PairOf(G[i].series[1])
                             THEN Count(rows, r) ELSE 0)
                    /\ \A j \in 1..(Len(G[i].series) - 1) :
                         DateValue(G[i].series[j].date)
                            <= DateValue(G[i].series[j + 1].date)
               /\ \A i \in DOMAIN rows : \E g \in DOMAIN G :
                    PairOf(G[g].series[1]) = PairOf(rows[i])
               /\ [i \in DOMAIN out |->
                     [salesHistory |-> out[i].salesHistory,
                      nextDayDemand |-> out[i].nextDayDemand]]
                    = ClaimAllSamples(G, w)


\* the feature keys the module documents (feature_engineering.py, lines 13-28)
DocumentedKeys ==
    {"rolling_mean_7", "rolling_mean_14", "rolling_mean_30", "rolling_std_7",
     "rolling_std_14", "lag_7", "lag_30", "trend", "last_day_sales",
     "day_of_week", "month", "week_of_year", "city_encoded", "current_stock",
     "lead_time_days", "stock_demand_ratio"}

\* thread t has completed a call of extract_features
Extracted(t) == pc[t] = "done" /\ req[t].tag = "features"

\* C12: for every series of length >= 1, extract_features does not raise
\* and returns exactly the 16 documented keys, each once, whatever the
\* length and whether or not a city or a reference date is given; a series
\* shorter than 14 is read as 14 values, its own mean to the left of it.
C12_FeatureKeysFixed ==
    \A t \in Predictors :
        (Extracted(t) /\ Len(req[t].sales) >= 1) =>
            LET sales == req[t].sales
                n == Len(sales)
                arr == resp[t].arr
            IN /\ resp[t].kind = "ok"
               /\ Range(resp[t].keys) = DocumentedKeys
               /\ Len(resp[t].keys) = 16
               /\ n >= 14 => arr = sales
               \* arr holds n times each value: n * mean = the sum
               /\ n < 14 =>
                    /\ Len(arr) = 14
                    /\ \A i \in 1..(14 - n) : arr[i] = TailSum(sales, n)
                    /\ \A i \in 1..n : arr[14 - n + i] = n * sales[i]

\* a single day, no city, no reference date: 13 copies of the day's value
\* before it and all 16 keys
C12_Witness ==
    \E t \in Predictors :
        /\ Extracted(t)
        /\ req[t].sales = <<3>>
        /\ req[t].city = "none"
        /\ req[t].ref_date = "none"
        /\ resp[t].kind = "ok"
        /\ Len(resp[t].arr) = 14
        /\ Len(resp[t].keys) = 16


\* C13: whenever predict answers with an artifact that train_model wrote,
\* the keys extracted from the query are exactly the artifact's persisted
\* feature_names: the inference row has one column per trained feature, in
\* the trained (sorted) order, each holding an extracted value and none the
\* default 0.0 of a missing key.
C13_InferenceKeysAreTrainedKeys ==
    \A t \in Predictors :
        (Answered(t) /\ art[t] # None) =>
            LET names == art[t].feature_names
                feats == extract_features(req[t].salesHistory.vals, "none", "iso")
                row == inference_row(req[t], art[t])
            IN /\ feats.kind = "ok"
               /\ Range(names) = Range(feats.keys)
               /\ Len(names) = Len(feats.keys)
               /\ names = SelectSeq(KeyOrder, LAMBDA k : k \in Range(feats.keys))
               /\ \A i, j \in DOMAIN names : i # j => names[i] # names[j]
               /\ Len(row) = Len(names)
               /\ \A i \in DOMAIN row : row[i] = "value"

\* a query of two days answered with the artifact of the second retrain of
\* the run
C13_Witness ==
    \E t \in Predictors :
        /\ Answered(t)
        /\ art[t] # None
        /\ art[t].version = 2
        /\ Len(req[t].salesHistory.vals) = 2
        /\ resp[t].method = "xgboost"


\* C14: reload_model re-reads storage: when it has returned (the /retrain
\* answer 200 reports its return value), the cache holds the artifact that
\* is in storage and the value returned is true; with no file in storage
\* the cache is empty and the value returned is false.
C14_ReloadRereadsStorage ==
    \A t \in Trainers :
        (pc[t] = "done" /\ resp[t].kind = "http" /\ resp[t].status = 200) =>
            /\ IsArtifact(storage) => (cache = storage /\ resp[t].reloaded)
            /\ storage = NoFile => (cache = None /\ ~resp[t].reloaded)

\* C15: the absence of an artifact is never cached.  A predict call
\* resolves to no artifact only at a step that finds storage empty, and
\* that step leaves the cache as it is, so that later calls look at storage
\* again; a call that resolves while storage holds a file (the first after
\* an artifact appears, or any after a model-based answer) does not resolve
\* to no artifact, with no reload_model needed.  An answer is heuristic
\* exactly when the call resolved to no artifact.
C15_AbsenceNeverCached ==
    /\ [](\A t \in Predictors :
            Answered(t) => (resp[t].method = "heuristic" <=> art[t] = None))
    /\ [][\A t \in Predictors :
            (pc[t] \in {"lm_ret_cached", "lm_exists", "lm_ret_loaded"}
             /\ pc'[t] = "compute" /\ art'[t] = None)
                => (storage = NoFile /\ cache' = cache)]_vars

====
